---- MODULE Spec2Model ----
(***************************************************************************)
(* A model of the invertible residual network of                           *)
(* src/model/src/distill/models/iRevNet.py: the coupling block             *)
(* (irevnet_block), the stack assembly (iRevNet.irevnet_stack) and the     *)
(* network-level forward/inverse (iRevNet).                                *)
(*                                                                         *)
(* A tensor is a record [side, ch]: ch is the sequence of its channels and *)
(* every channel is the row-major sequence of its side*side entries.  The  *)
(* batch dimension is left out (every operation acts per sample).  Floating*)
(* point is replaced by exact integer arithmetic.                          *)
(*                                                                         *)
(* split, merge, injective_pad and psi come from model_utils, which is not *)
(* among the source files; they are modelled from the specification.       *)
(***************************************************************************)
EXTENDS Integers, Sequences, FiniteSets, TLC

VARIABLES pc, bargs, blk, nargs, net, theta, input, call, memo

vars == <<pc, bargs, blk, nargs, net, theta, input, call, memo>>

-----------------------------------------------------------------------------
(* Bounds of the model. *)

\* tensor entries of the inputs are affine ramps with coefficients 0..MaxVal
MaxVal == 1
\* the parameter of the inner transform F ranges over 0..MaxTheta
MaxTheta == 1
\* a standalone block has in_ch in 1..MaxCh and out_ch in 1..2*MaxCh
MaxCh == 4
\* block count of a stage ranges over 0..MaxDepth
MaxDepth == 2
\* the values of F are th * (0..FRange-1)
FRange == 5

\* spatial sides of the inputs of a standalone block
Sides == {1, 2}

-----------------------------------------------------------------------------
(* Tensors. *)

NumCh(t) == Len(t.ch)

SameShape(a, b) == a.side = b.side /\ NumCh(a) = NumCh(b)

\* placeholder carried by a failed call
ErrT == [side |-> 0, ch |-> <<>>]

\* elementwise a + b
Add(a, b) ==
  [side |-> a.side,
   ch |-> [c \in 1..NumCh(a) |->
             [p \in 1..Len(a.ch[c]) |-> a.ch[c][p] + b.ch[c][p]]]]

\* elementwise -a
Neg(a) ==
  [side |-> a.side,
   ch |-> [c \in 1..NumCh(a) |-> [p \in 1..Len(a.ch[c]) |-> 0 - a.ch[c][p]]]]

\* s[1] + ... + s[n]
RECURSIVE SumTo(_, _)
SumTo(s, n) == IF n = 0 THEN 0 ELSE s[n] + SumTo(s, n - 1)

\* the sum of a sequence (sum(nBlocks); the accumulation inside F)
SeqSum(s) == SumTo(s, Len(s))

\* the input tensors of the model: entry i (channel-major) is a*i + b
Ramp(C, S, a, b) ==
  [side |-> S,
   ch |-> [c \in 1..C |-> [p \in 1..S*S |-> a * ((c-1)*S*S + p) + b]]]

Ramps(C, S) == {Ramp(C, S, a, b) : a \in 0..MaxVal, b \in 0..MaxVal}

-----------------------------------------------------------------------------
(* model_utils: split, merge, injective_pad, psi (from the specification). *)

\* merge(x1, x2): channel concatenation
merge(x1, x2) == [side |-> x1.side, ch |-> x1.ch \o x2.ch]

\* split(x): the first half of the channels and the rest
split(x) ==
  LET n == NumCh(x) \div 2 IN
  <<[side |-> x.side, ch |-> SubSeq(x.ch, 1, n)],
    [side |-> x.side, ch |-> SubSeq(x.ch, n+1, NumCh(x))]>>

ZeroChannel(S) == [p \in 1..S*S |-> 0]

\* injective_pad(pad).forward: pad extra zero channels after the existing
\* ones; a negative amount removes trailing channels
inj_pad_forward(pad, x) ==
  IF pad >= 0
  THEN [side |-> x.side, ch |-> x.ch \o [i \in 1..pad |-> ZeroChannel(x.side)]]
  ELSE [side |-> x.side,
        ch |-> SubSeq(x.ch, 1, IF NumCh(x) + pad > 0 THEN NumCh(x) + pad ELSE 0)]

\* injective_pad(pad).inverse: truncation to the first NumCh(x) - pad channels
inj_pad_inverse(pad, x) ==
  LET k == NumCh(x) - pad
      n == IF k < 0 THEN 0 ELSE IF k > NumCh(x) THEN NumCh(x) ELSE k
  IN [side |-> x.side, ch |-> SubSeq(x.ch, 1, n)]

\* psi(bs).forward is defined when the side is a multiple of bs
psi_forward_ok(bs, x) == bs > 0 /\ x.side % bs = 0

\* psi(bs).forward: every bs x bs spatial block becomes bs*bs channels
psi_forward(bs, x) ==
  LET S == x.side
      C == NumCh(x)
      S2 == S \div bs
  IN [side |-> S2,
      ch |-> [k \in 1..C*bs*bs |->
                [p \in 1..S2*S2 |->
                   LET q == (k-1) \div C
                       c == ((k-1) % C) + 1
                       h == ((p-1) \div S2) * bs + (q \div bs)
                       w == ((p-1) % S2) * bs + (q % bs)
                   IN x.ch[c][h*S + w + 1]]]]

\* psi(bs).inverse is defined when the channel count is a multiple of bs*bs
psi_inverse_ok(bs, x) == bs > 0 /\ NumCh(x) % (bs*bs) = 0

\* psi(bs).inverse: the exact inverse of psi_forward
psi_inverse(bs, x) ==
  LET S2 == x.side
      S == S2 * bs
      C == NumCh(x) \div (bs*bs)
  IN [side |-> S,
      ch |-> [c \in 1..C |->
                [p \in 1..S*S |->
                   LET h == (p-1) \div S
                       w == (p-1) % S
                       q == (h % bs) * bs + (w % bs)
                   IN x.ch[q*C + c][(h \div bs)*S2 + (w \div bs) + 1]]]]

-----------------------------------------------------------------------------
(* irevnet_block. *)

\* irevnet_block.__init__: the fields forward and inverse read.  fin is the
\* input width of the first convolution of F (in_ch//2 after the injective
\* adjustment of in_ch), out_ch the output width of its last convolution.
irevnet_block_init(in_ch, out_ch, stride, first) ==
  LET pad == 2 * out_ch - in_ch
      in2 == IF pad # 0 /\ stride = 1 THEN out_ch * 2 ELSE in_ch
  IN [first |-> first, pad |-> pad, stride |-> stride,
      fin |-> in2 \div 2, out_ch |-> out_ch]

\* the activation of F's prologue (non-first blocks)
Relu(v) == IF v < 0 THEN 0 ELSE v

\* F accepts x2 when its channel count is the first convolution's input width
bottleneck_ok(b, x2) == NumCh(x2) = b.fin

\* variant: F's value depends on whether a forward call came before (a
\* statistic or activation kept by forward)
bottleneck_block_stateful(b, th, x2) ==
  LET S2 == ((x2.side - 1) \div b.stride) + 1
      th2 == th + (IF call.op = "forward" THEN 1 ELSE 0)
      w == SeqSum([c \in 1..NumCh(x2) |->
             SeqSum([p \in 1..Len(x2.ch[c]) |->
                (c + p) * (IF b.first THEN x2.ch[c][p] ELSE Relu(x2.ch[c][p]))])])
  IN [side |-> S2,
      ch |-> [c \in 1..b.out_ch |-> [p \in 1..S2*S2 |-> th2 * ((w + c + p) % FRange)]]]

\* bottleneck_block(x2): a function of x2 and the parameters th alone (the
\* dropout mask and the batch statistics are not modelled: the two
\* evaluations of F on one x2 agree), with out_ch channels and the spatial
\* side of a 3x3 convolution of padding 1 and the block's stride.  th = 0 is
\* the zero function.
bottleneck_block(b, th, x2) ==
  LET S2 == ((x2.side - 1) \div b.stride) + 1
      w == SeqSum([c \in 1..NumCh(x2) |->
             SeqSum([p \in 1..Len(x2.ch[c]) |->
                (c + p) * (IF b.first THEN x2.ch[c][p] ELSE Relu(x2.ch[c][p]))])])
  IN [side |-> S2,
      ch |-> [c \in 1..b.out_ch |-> [p \in 1..S2*S2 |-> th * ((w + c + p) % FRange)]]]

\* a failed call (a dimension mismatch raised by the framework)
Failed(steps) == [ok |-> FALSE, out |-> <<ErrT, ErrT>>, steps |-> steps]

\* variant: the stride condition of the guard is dropped
takes_pad_step_any_stride(b) == b.pad # 0

\* the guard of the injective step, shared by forward and inverse
takes_pad_step(b) == b.pad # 0 /\ b.stride = 1

\* forward, lines 51-54: merge, pad, split
inject(b, x) == split(inj_pad_forward(b.pad, merge(x[1], x[2])))

\* variant: the negation of F's value is left out
neg_bottleneck_no_minus(b, th, x2) == bottleneck_block(b, th, x2)

\* inverse, line 69: Fx2 = - self.bottleneck_block(x2)
neg_bottleneck(b, th, x2) == Neg(bottleneck_block(b, th, x2))

\* variant: the injected channels are not truncated
eject_no_truncate(b, x1, x2) == split(merge(x1, x2))

\* inverse, lines 74-77: merge, truncate, split
eject(b, x1, x2) == split(inj_pad_inverse(b.pad, merge(x1, x2)))

\* irevnet_block.forward
block_forward(b, th, x) ==
  LET padded == takes_pad_step(b)
      xp == IF padded THEN inject(b, x) ELSE x
      s0 == IF padded THEN <<"pad">> ELSE <<>>
      x1 == xp[1]
      x2 == xp[2]
  IN IF ~bottleneck_ok(b, x2) THEN Failed(s0)
     ELSE
       LET Fx2 == bottleneck_block(b, th, x2)
           s1 == Append(s0, "F")
       IN IF b.stride = 2 /\ ~(psi_forward_ok(2, x1) /\ psi_forward_ok(2, x2))
          THEN Failed(s1)
          ELSE
            LET x1s == IF b.stride = 2 THEN psi_forward(b.stride, x1) ELSE x1
                x2s == IF b.stride = 2 THEN psi_forward(b.stride, x2) ELSE x2
                s2 == IF b.stride = 2 THEN Append(s1, "psi") ELSE s1
            IN IF ~SameShape(Fx2, x1s) THEN Failed(s2)
               ELSE [ok |-> TRUE, out |-> <<x2s, Add(Fx2, x1s)>>,
                     steps |-> Append(s2, "add")]

\* irevnet_block.inverse
block_inverse(b, th, y) ==
  IF b.stride = 2 /\ ~psi_inverse_ok(2, y[1]) THEN Failed(<<>>)
  ELSE
    LET x2 == IF b.stride = 2 THEN psi_inverse(b.stride, y[1]) ELSE y[1]
        y1 == y[2]
        s0 == IF b.stride = 2 THEN <<"unpsi">> ELSE <<>>
    IN IF ~bottleneck_ok(b, x2) THEN Failed(s0)
       ELSE
         LET Fx2 == neg_bottleneck(b, th, x2)
             s1 == Append(s0, "F")
         IN IF ~SameShape(Fx2, y1) THEN Failed(s1)
            ELSE
              LET x1a == Add(Fx2, y1)
                  s2 == Append(s1, "add")
              IN IF b.stride = 2 /\ ~psi_inverse_ok(2, x1a) THEN Failed(s2)
                 ELSE
                   LET x1 == IF b.stride = 2 THEN psi_inverse(b.stride, x1a)
                             ELSE x1a
                       s3 == IF b.stride = 2 THEN Append(s2, "unpsi") ELSE s2
                   IN IF takes_pad_step(b)
                      THEN [ok |-> TRUE, out |-> eject(b, x1, x2),
                            steps |-> Append(s3, "truncate")]
                      ELSE [ok |-> TRUE, out |-> <<x1, x2>>, steps |-> s3]

-----------------------------------------------------------------------------
(* iRevNet: construction. *)

Min2(a, b) == IF a < b THEN a ELSE b

RECURSIVE Pow2(_)
Pow2(k) == IF k <= 0 THEN 1 ELSE 2 * Pow2(k - 1)

\* [v] * n of the source language: n copies of v, none when n <= 0
Repeat(v, n) == [i \in 1..n |-> v]

\* nStrides.count(2)
Count2(nStrides) == Cardinality({i \in 1..Len(nStrides) : nStrides[i] = 2})

\* the number of triples zip(nChannels, nBlocks, nStrides) yields
ZipLen(nChannels, nBlocks, nStrides) ==
  Min2(Len(nChannels), Min2(Len(nBlocks), Len(nStrides)))

\* irevnet_stack, lines 111-115: the list strides after the first m stages
RECURSIVE stack_strides(_, _, _)
stack_strides(nBlocks, nStrides, m) ==
  IF m = 0 THEN <<>>
  ELSE stack_strides(nBlocks, nStrides, m - 1)
         \o (<<nStrides[m]>> \o Repeat(1, nBlocks[m] - 1))

\* irevnet_stack, lines 111-115: the list channels after the first m stages
RECURSIVE stack_channels(_, _, _)
stack_channels(nChannels, nBlocks, m) ==
  IF m = 0 THEN <<>>
  ELSE stack_channels(nChannels, nBlocks, m - 1) \o Repeat(nChannels[m], nBlocks[m])

\* irevnet_stack, lines 116-123: one block per pair of zip(channels,
\* strides); the first block gets in_ch and first = True, block k+1 gets
\* 2 * channel of block k
irevnet_stack(nChannels, nBlocks, nStrides, in_ch) ==
  LET m == ZipLen(nChannels, nBlocks, nStrides)
      strides == stack_strides(nBlocks, nStrides, m)
      channels == stack_channels(nChannels, nBlocks, m)
  IN [k \in 1..Min2(Len(channels), Len(strides)) |->
        irevnet_block_init(IF k = 1 THEN in_ch ELSE 2 * channels[k-1],
                           channels[k], strides[k], k = 1)]

\* iRevNet.__init__, lines 95-97: the default channel schedule
default_channels(in_ch) ==
  <<in_ch \div 2, (in_ch \div 2) * 4, (in_ch \div 2) * 16, (in_ch \div 2) * 64>>

\* iRevNet.__init__: the fields of the constructed network.  lin_in is the
\* width of bn1 and of the input of linear, nChannels[-1]*2.
iRevNet_init(a) ==
  LET in_ch == a.in_shape[1] * Pow2(a.init_ds)
      nChannels == IF a.nChannels = <<>> THEN default_channels(in_ch)
                   ELSE a.nChannels
      stack == irevnet_stack(nChannels, a.nBlocks, a.nStrides, in_ch)
  IN [ds |-> a.in_shape[3] \div Pow2(Count2(a.nStrides) + a.init_ds \div 2),
      init_ds |-> a.init_ds,
      in_ch |-> in_ch,
      nBlocks |-> a.nBlocks,
      first |-> (stack = <<>>),
      stack |-> stack,
      lin_in |-> nChannels[Len(nChannels)] * 2]

-----------------------------------------------------------------------------
(* iRevNet: forward and inverse. *)

\* x[:, lo:hi] of the source language on the channel axis (0-based, hi
\* exclusive, both clamped to the channel count)
Slice(x, lo, hi) ==
  [side |-> x.side, ch |-> SubSeq(x.ch, Min2(lo, NumCh(x)) + 1, Min2(hi, NumCh(x)))]

\* forward, lines 131-132: the blocks k, k+1, ... of the stack in order
RECURSIVE stack_forward(_, _, _, _)
stack_forward(stack, th, k, out) ==
  IF k > Len(stack) THEN [ok |-> TRUE, out |-> out, visited |-> <<>>]
  ELSE LET r == block_forward(stack[k], th, out) IN
       IF ~r.ok THEN [ok |-> FALSE, out |-> <<ErrT, ErrT>>, visited |-> <<k>>]
       ELSE LET rest == stack_forward(stack, th, k + 1, r.out) IN
            [ok |-> rest.ok, out |-> rest.out, visited |-> <<k>> \o rest.visited]

\* variant: the blocks are inverted in the order of the forward pass
RECURSIVE stack_inverse_forward_order(_, _, _, _)
stack_inverse_forward_order(stack, th, i, out) ==
  IF i >= Len(stack) THEN [ok |-> TRUE, out |-> out, visited |-> <<>>]
  ELSE LET k == i + 1
           r == block_inverse(stack[k], th, out)
       IN IF ~r.ok THEN [ok |-> FALSE, out |-> <<ErrT, ErrT>>, visited |-> <<k>>]
          ELSE LET rest == stack_inverse_forward_order(stack, th, i + 1, r.out) IN
               [ok |-> rest.ok, out |-> rest.out, visited |-> <<k>> \o rest.visited]

\* inverse, lines 143-144: for i in range(len(stack)), stack[-1-i].inverse
RECURSIVE stack_inverse(_, _, _, _)
stack_inverse(stack, th, i, out) ==
  IF i >= Len(stack) THEN [ok |-> TRUE, out |-> out, visited |-> <<>>]
  ELSE LET k == Len(stack) - i
           r == block_inverse(stack[k], th, out)
       IN IF ~r.ok THEN [ok |-> FALSE, out |-> <<ErrT, ErrT>>, visited |-> <<k>>]
          ELSE LET rest == stack_inverse(stack, th, i + 1, r.out) IN
               [ok |-> rest.ok, out |-> rest.out, visited |-> <<k>> \o rest.visited]

NetFailed(visited) ==
  [ok |-> FALSE, bijok |-> FALSE, bij |-> ErrT, pair0 |-> <<ErrT, ErrT>>,
   flat |-> 0, visited |-> visited]

\* the classification head, lines 134-137: bn1 needs lin_in channels,
\* avg_pool2d a window of 1..side, linear a flattened length of lin_in.
\* The value is the flattened length, 0 when the head fails before view.
head_flat(n, bij) ==
  IF NumCh(bij) # n.lin_in \/ n.ds < 1 \/ n.ds > bij.side THEN 0
  ELSE NumCh(bij) * (bij.side \div n.ds) * (bij.side \div n.ds)

\* iRevNet.forward
net_forward(n, th, x) ==
  IF n.init_ds # 0 /\ ~psi_forward_ok(n.init_ds, x) THEN NetFailed(<<>>)
  ELSE
    LET h == n.in_ch \div 2
        xd == IF n.init_ds # 0 THEN psi_forward(n.init_ds, x) ELSE x
        pair0 == <<Slice(xd, 0, h), Slice(xd, h, NumCh(xd))>>
        r == stack_forward(n.stack, th, 1, pair0)
    IN IF ~r.ok THEN NetFailed(r.visited)
       ELSE
         LET bij == merge(r.out[1], r.out[2])
             flat == head_flat(n, bij)
         IN [ok |-> flat = n.lin_in /\ flat > 0, bijok |-> TRUE, bij |-> bij,
             pair0 |-> pair0, flat |-> flat, visited |-> r.visited]

InvFailed(visited) == [ok |-> FALSE, out |-> ErrT, visited |-> visited]

\* iRevNet.inverse
net_inverse(n, th, out_bij) ==
  LET r == stack_inverse(n.stack, th, 0, split(out_bij)) IN
  IF ~r.ok \/ r.out[1].side # r.out[2].side THEN InvFailed(r.visited)
  ELSE
    LET out == merge(r.out[1], r.out[2]) IN
    IF n.init_ds # 0
    THEN IF ~psi_inverse_ok(n.init_ds, out) THEN InvFailed(r.visited)
         ELSE [ok |-> TRUE, out |-> psi_inverse(n.init_ds, out),
               visited |-> r.visited]
    ELSE [ok |-> TRUE, out |-> out, visited |-> r.visited]

-----------------------------------------------------------------------------
(* A standalone block: construction, then forward(x) and inverse of the    *)
(* pair forward returned.  The arguments of the constructor, the parameters*)
(* of F and the input pair are drawn in the initial state.                 *)

BlockArgs ==
  [in_ch : 1..MaxCh, out_ch : 1..2*MaxCh, stride : {1, 2}, first : BOOLEAN]

NoBlock == [first |-> FALSE, pad |-> 0, stride |-> 0, fin |-> 0, out_ch |-> 0]
NoArgs == [in_ch |-> 0]
NoNet == [stack |-> <<>>]
NoCall == [op |-> "none"]

\* the pairs (x1, x2) a block of in_ch input channels is called on: the
\* first in_ch//2 channels and the rest, of one spatial side
BlockInputs(in_ch) ==
  UNION {{<<x1, x2>> : x1 \in Ramps(in_ch \div 2, S),
                       x2 \in Ramps(in_ch - in_ch \div 2, S)} : S \in Sides}

InitBlock ==
  /\ pc = "new"
  /\ bargs \in BlockArgs
  /\ theta \in 0..MaxTheta
  /\ input \in BlockInputs(bargs.in_ch)
  /\ blk = NoBlock
  /\ nargs = NoArgs
  /\ net = NoNet
  /\ call = NoCall
  /\ memo = NoCall

\* irevnet_block(in_ch, out_ch, stride, first)
BlockConstruct ==
  /\ pc = "new"
  /\ blk' = irevnet_block_init(bargs.in_ch, bargs.out_ch, bargs.stride, bargs.first)
  /\ pc' = "built"
  /\ UNCHANGED <<bargs, nargs, net, theta, input, call, memo>>

\* block.forward(x)
BlockForward ==
  /\ pc = "built"
  /\ call.op # "forward"
  /\ call' = [op |-> "forward", arg |-> input,
              res |-> block_forward(blk, theta, input)]
  /\ UNCHANGED <<pc, bargs, blk, nargs, net, theta, input, memo>>

\* block.inverse(block.forward(x)): inverse called on the pair the
\* forward call returned
BlockInverse ==
  /\ pc = "built"
  /\ call.op = "forward"
  /\ call.res.ok
  /\ call' = [op |-> "inverse", arg |-> call.res.out, orig |-> call.arg,
              fwd |-> call.res,
              res |-> block_inverse(blk, theta, call.res.out)]
  /\ UNCHANGED <<pc, bargs, blk, nargs, net, theta, input, memo>>

NextBlock ==
  \/ BlockConstruct
  \/ BlockForward
  \/ BlockInverse

SpecBlock == InitBlock /\ [][NextBlock]_vars

-----------------------------------------------------------------------------
(* The network: construction, forward(x), inverse of the bijective         *)
(* features forward returned, and inverse of a tensor no forward call      *)
(* produced.  The constructor's arguments, the parameters of F and the     *)
(* input are drawn in the initial state.                                   *)

\* stage channel counts, stage strides, numbers of stages, initial
\* downsampling and input shapes (channels, height, width) of the model
ChanSet == {2, 8}
StrideSet == {1, 2}
StageCounts == {1, 2}
InitDs == {0, 2}
InShapes == {<<1, 2, 2>>, <<2, 2, 2>>, <<1, 4, 4>>}

Lists(S, lens) == UNION {[1..n -> S] : n \in lens}

\* the input tensors of a network of input shape sh: the constant tensor
\* and the tensor whose entries are all distinct
NetInputs(sh) == {Ramp(sh[1], sh[2], a, 1) : a \in {0, 1}}

\* the tensor inverse is called on without a forward call: the channel
\* count of the bijective features at side 1
Probe(n) == Ramp(n.lin_in, 1, 1, 0)

\* constructor arguments with schedules of one length
NetArgs ==
  UNION {[nBlocks : [1..n -> 0..MaxDepth], nStrides : [1..n -> StrideSet],
          nChannels : [1..n -> ChanSet], init_ds : InitDs,
          in_shape : InShapes] : n \in StageCounts}

InitNet ==
  /\ pc = "new"
  /\ nargs \in NetArgs
  /\ theta \in 0..MaxTheta
  /\ input \in NetInputs(nargs.in_shape)
  /\ net = NoNet
  /\ bargs = NoArgs
  /\ blk = NoBlock
  /\ call = NoCall
  /\ memo = NoCall

\* constructor arguments with schedules of any lengths, nChannels possibly
\* left out (the empty list stands for None), on one input shape
StackArgs ==
  [nBlocks : Lists(0..MaxDepth, StageCounts), nStrides : Lists(StrideSet, StageCounts),
   nChannels : Lists(ChanSet, StageCounts \cup {0}), init_ds : {0},
   in_shape : {<<2, 2, 2>>}]

InitStack ==
  /\ pc = "new"
  /\ nargs \in StackArgs
  /\ theta = 1
  /\ input = Ramp(nargs.in_shape[1], nargs.in_shape[2], 1, 1)
  /\ net = NoNet
  /\ bargs = NoArgs
  /\ blk = NoBlock
  /\ call = NoCall
  /\ memo = NoCall

\* iRevNet(nBlocks, nStrides, nClasses, nChannels, init_ds, ..., in_shape)
NetConstruct ==
  /\ pc = "new"
  /\ net' = iRevNet_init(nargs)
  /\ pc' = "built"
  /\ UNCHANGED <<bargs, blk, nargs, theta, input, call, memo>>

\* net.forward(x)
NetForward ==
  /\ pc = "built"
  /\ call.op # "forward"
  /\ call' = [op |-> "forward", arg |-> input, res |-> net_forward(net, theta, input)]
  /\ UNCHANGED <<pc, bargs, blk, nargs, net, theta, input, memo>>

\* net.inverse(net.forward(x)[1])
NetInverse ==
  /\ pc = "built"
  /\ call.op = "forward"
  /\ call.res.ok
  /\ call' = [op |-> "inverse", arg |-> call.res.bij, orig |-> call.arg,
              fwd |-> call.res, res |-> net_inverse(net, theta, call.res.bij)]
  /\ UNCHANGED <<pc, bargs, blk, nargs, net, theta, input, memo>>

\* net.inverse(y) on a tensor no forward call produced; memo keeps the
\* first such call
NetProbe ==
  /\ pc = "built"
  /\ call.op # "probe"
  /\ call' = [op |-> "probe", arg |-> Probe(net),
              res |-> net_inverse(net, theta, Probe(net)),
              after |-> call.op]
  /\ memo' = IF memo = NoCall THEN call' ELSE memo
  /\ UNCHANGED <<pc, bargs, blk, nargs, net, theta, input>>

NextNet ==
  \/ NetConstruct
  \/ NetForward
  \/ NetInverse
  \/ NetProbe

SpecNet == InitNet /\ [][NextNet]_vars

SpecStack == InitStack /\ [][NextNet]_vars

-----------------------------------------------------------------------------
(* Properties of a standalone block (checked under SpecBlock). *)

TotalCh(x) == NumCh(x[1]) + NumCh(x[2])
Elems(x) == NumCh(x[1]) * x[1].side * x[1].side + NumCh(x[2]) * x[2].side * x[2].side

\* a bijective (pad = 0) or injective (pad > 0) block of stride 1, or a
\* block of stride 2 whose F has the width of the permuted x1
ValidBlock(a) ==
  \/ a.stride = 1 /\ 2 * a.out_ch >= a.in_ch
  \/ a.stride = 2 /\ a.in_ch % 2 = 0 /\ a.out_ch = 2 * a.in_ch

\* the input pair has a side the block's stride divides
InputFits(a, x) == x[1].side % a.stride = 0

\* C1: for every valid block configuration and every input pair of matching
\* shape, forward succeeds and inverse(forward((x1, x2))) = (x1, x2),
\* whatever the parameters of F are.
C1_BlockRoundTrip ==
  (pc = "built" /\ ValidBlock(bargs) /\ InputFits(bargs, input)) =>
     /\ call.op = "forward" => call.res.ok
     /\ call.op = "inverse" => call.res.ok /\ call.res.out = call.orig

\* C1 witness: a stride-2 block with a non-zero F inverted back to a
\* non-constant input pair
C1_Witness ==
  /\ call.op = "inverse"
  /\ blk.stride = 2
  /\ theta > 0
  /\ call.res.ok
  /\ call.res.out = input
  /\ input[1].ch[1][1] # input[1].ch[1][2]
  /\ call.arg # input

\* C5: for a block with pad > 0, each tensor forward returns has out_ch
\* channels (forward always succeeds at stride 1), and inverse of that pair
\* has the original in_ch channels in all.
C5_InjectiveChannels ==
  (pc = "built" /\ 2 * bargs.out_ch - bargs.in_ch > 0) =>
     /\ (call.op = "forward" /\ bargs.stride = 1) => call.res.ok
     /\ (call.op = "forward" /\ call.res.ok) =>
           /\ NumCh(call.res.out[1]) = bargs.out_ch
           /\ NumCh(call.res.out[2]) = bargs.out_ch
     /\ call.op = "inverse" =>
           /\ call.res.ok
           /\ TotalCh(call.res.out) = bargs.in_ch
           /\ NumCh(call.res.out[1]) = NumCh(call.orig[1])

\* C5 witness: an injective block (3 -> 2*2 channels) inverted
C5_Witness ==
  /\ call.op = "inverse"
  /\ blk.stride = 1
  /\ blk.pad > 0
  /\ bargs.in_ch = 3
  /\ "truncate" \in {call.res.steps[i] : i \in 1..Len(call.res.steps)}
  /\ TotalCh(call.arg) = 2 * bargs.out_ch
  /\ TotalCh(call.res.out) = 3

StepsOf(r) == {r.steps[i] : i \in 1..Len(r.steps)}

\* C8: the padding step of forward and the truncation step of inverse are
\* taken only when 2*out_ch > in_ch and the stride is 1.
C8_PadOnlyWhenGrowing ==
  call.op \in {"forward", "inverse"} =>
     (("pad" \in StepsOf(call.res) \/ "truncate" \in StepsOf(call.res)) =>
        (2 * bargs.out_ch > bargs.in_ch /\ bargs.stride = 1))

\* C9 as stated: when padding is not applied, the returned pair has no more
\* channels than the input pair.
C9_ChannelsNeverGrow ==
  (call.op = "forward" /\ call.res.ok /\ "pad" \notin StepsOf(call.res)) =>
     TotalCh(call.res.out) <= TotalCh(call.arg)

\* C9 amended: when padding is not applied, a valid block's forward
\* succeeds and returns as many channels as it was given at stride 1 and
\* four times as many at stride 2 (psi), never more tensor elements.
C9_GrowthOnlyByPadOrPsi ==
  (call.op = "forward" /\ ~(bargs.stride = 1 /\ 2 * bargs.out_ch # bargs.in_ch)) =>
     /\ (ValidBlock(bargs) /\ InputFits(bargs, input)) => call.res.ok
     /\ call.res.ok =>
           /\ "pad" \notin StepsOf(call.res)
           /\ bargs.stride = 1 => TotalCh(call.res.out) = TotalCh(call.arg)
           /\ bargs.stride = 2 => TotalCh(call.res.out) = 4 * TotalCh(call.arg)
           /\ Elems(call.res.out) <= Elems(call.arg)

\* C9 witness: a stride-2 block returning four times the channels
C9_Witness ==
  /\ call.op = "forward"
  /\ call.res.ok
  /\ bargs.stride = 2
  /\ TotalCh(call.arg) = 2
  /\ TotalCh(call.res.out) = 8
  /\ Elems(call.res.out) = Elems(call.arg)

-----------------------------------------------------------------------------
(* Properties of the network (checked under SpecNet and SpecStack). *)

\* the channel schedule the constructor uses
EffChannels(a) ==
  IF a.nChannels = <<>>
  THEN default_channels(a.in_shape[1] * Pow2(a.init_ds)) ELSE a.nChannels

EqualLengths(a) ==
  Len(a.nBlocks) = Len(a.nStrides) /\ Len(a.nStrides) = Len(EffChannels(a))

\* the input side is a multiple of the cumulative downsampling factor
Divisible(a) == a.in_shape[3] % Pow2(Count2(a.nStrides) + a.init_ds \div 2) = 0

\* no stride-1 block of the stack removes channels (pad < 0)
AllBlocksValid(n) ==
  \A k \in 1..Len(n.stack) : n.stack[k].stride = 1 => n.stack[k].pad >= 0

Downto(n) == [i \in 1..n |-> n + 1 - i]
Upto(n) == [i \in 1..n |-> i]

\* C2 as stated: the inverse of the bijective features is the two-way split
\* of the (possibly downsampled) input, the pair forward split off.
C2_InverseIsSplitPair ==
  (call.op = "inverse" /\ Len(net.stack) >= 1 /\ AllBlocksValid(net) /\ call.res.ok) =>
     split(call.res.out) = call.fwd.pair0

\* C2 amended: for a network of valid blocks and an input forward accepts,
\* the inverse of the bijective features is the input tensor itself (the
\* pair merged, the initial permutation undone), and the inverse visits
\* every block exactly once in the reversed order of the forward pass.
C2_NetRoundTrip ==
  (call.op = "inverse" /\ AllBlocksValid(net)) =>
     /\ call.res.ok
     /\ call.res.out = call.orig
     /\ call.fwd.visited = Upto(Len(net.stack))
     /\ call.res.visited = Downto(Len(net.stack))

\* C2 witness: a network with initial downsampling, an injective block and
\* a stride-2 block inverted back to its input
C2_Witness ==
  /\ call.op = "inverse"
  /\ net.init_ds = 2
  /\ theta > 0
  /\ Len(net.stack) >= 2
  /\ \E k \in 1..Len(net.stack) : net.stack[k].stride = 2
  /\ call.res.visited = Downto(Len(net.stack))
  /\ call.res.out = input
  /\ split(call.res.out) # call.fwd.pair0

\* C6: a configured input side that the cumulative downsampling factor does
\* not divide ends construction in a configuration error.
C6_NonDivisibleRejected ==
  (pc # "new" /\ ~Divisible(nargs)) => pc = "config_error"

C10_PoolWindowIsFeatureSide ==
  (call.op = "forward" /\ call.res.bijok /\ EqualLengths(nargs) /\ Divisible(nargs)) =>
     /\ net.ds = call.res.bij.side
     /\ call.res.flat = net.lin_in

\* C3: schedules of mismatched lengths end construction in a configuration
\* error with no block built.
C3_MismatchRejected ==
  (pc # "new" /\ ~EqualLengths(nargs)) =>
     (pc = "config_error" /\ net.stack = <<>>)

\* the stage block position k belongs to, counting block counts from stage i
RECURSIVE StageOf(_, _, _)
StageOf(nBlocks, k, i) ==
  IF i >= Len(nBlocks) \/ k <= nBlocks[i] THEN i
  ELSE StageOf(nBlocks, k - nBlocks[i], i + 1)

RECURSIVE OffsetOf(_, _, _)
OffsetOf(nBlocks, k, i) ==
  IF i >= Len(nBlocks) \/ k <= nBlocks[i] THEN k
  ELSE OffsetOf(nBlocks, k - nBlocks[i], i + 1)

\* C4: with schedules of one length the stack has sum(block_counts) blocks;
\* the block at each position has the channel count of its stage, and the
\* stage's stride if it is the first block of its stage, stride 1 otherwise.
C4_FlatSchedule ==
  (pc = "built" /\ EqualLengths(nargs)) =>
     /\ Len(net.stack) = SeqSum(nargs.nBlocks)
     /\ \A k \in 1..Len(net.stack) :
          LET i == StageOf(nargs.nBlocks, k, 1) IN
          /\ net.stack[k].out_ch = EffChannels(nargs)[i]
          /\ net.stack[k].stride =
               (IF OffsetOf(nargs.nBlocks, k, 1) = 1 THEN nargs.nStrides[i] ELSE 1)

====
